---- MODULE Spec2Model ----
(***************************************************************************)
(* The ingestion pipeline of Delta_lake: processamento/file_watcher.py     *)
(* (LandingZoneHandler, FileWatcher, scan_existing_files, main) and        *)
(* processamento/data_processor.py (DataProcessor).                        *)
(*                                                                         *)
(* Two ways of driving LandingZoneHandler.on_created are modelled, chosen  *)
(* in Init by the variable driver:                                         *)
(*   "main"  the program as started by main(): the backlog scan runs on    *)
(*           the event-loop thread, then FileWatcher.start() blocks that   *)
(*           thread in observer.join() while watchdog's observer thread    *)
(*           calls on_created;                                             *)
(*   "loop"  on_created called from a coroutine of a running event loop,   *)
(*           the only context in which asyncio.create_task (line 52) can   *)
(*           return a task.                                                *)
(***************************************************************************)
EXTENDS Integers, Sequences, FiniteSets, TLC

\* ------------------------------------------------------------- bounds
\* create events delivered to on_created by a caller on the loop thread
MaxEvents == 3
\* largest row count a read returns
MaxRows == 1
\* calls of process_file in one run
MaxExecs == 4
\* rows of a table whose cells are followed one by one
MaxHeight == 2
\* files written one after the other into one bronze table
MaxFiles == 2

\* -------------------------------------------------------- file system
\* api/main.py lines 62-63 and 105-106: the file an ingestion endpoint
\* writes, LANDING_ZONE / "video_<timestamp>_<id>.json"
VideoFile == "video_1.json"

\* The entries of the cluster directories: two supported files of one cluster
\* (one with an upper-case suffix), one unsupported file and one sub-directory;
\* and a file of the ingestion endpoints in the landing-zone root.
Paths == {"raw/diabetes/a.csv", "raw/diabetes/b.XLSX", "raw/diabetes/n.json",
          "raw/diabetes/sub", VideoFile}

\* the entries that can exist before the program starts; b.XLSX is always
\* created while it runs
PreExisting == Paths \ {"raw/diabetes/b.XLSX"}

\* event.is_directory / Path.is_file()
IsDirectory(p) == p = "raw/diabetes/sub"

\* Path.parent.name
Parent(p) == IF p = VideoFile THEN "Landing_zone" ELSE "diabetes"

\* Path.suffix
Suffix(p) ==
    CASE p = "raw/diabetes/a.csv" -> ".csv"
      [] p = "raw/diabetes/b.XLSX" -> ".XLSX"
      [] p = "raw/diabetes/n.json" -> ".json"
      [] p = VideoFile -> ".json"
      [] OTHER -> ""

\* str.lower() on the suffixes that occur
Lower(s) == IF s = ".XLSX" THEN ".xlsx" ELSE s

\* LandingZoneHandler.supported_extensions
supported_extensions == {".xlsx", ".xls", ".csv"}

\* FileWatcher.watch_directories / the list scan_existing_files iterates
\* (three of the five configured clusters; renda_extra has no directory)
watch_directories == <<"diabetes", "emagrecimento", "renda_extra">>

\* directory.exists() for a cluster directory
DirExists(d) == d \in {"diabetes", "emagrecimento"}

Clusters == {"diabetes", "emagrecimento", "renda_extra", "unknown"}

\* LandingZoneHandler._detect_cluster: first part of the path relative to
\* LANDING_ZONE/data/raw, "unknown" when the path is not under it
detect_cluster(p) == IF p \in Paths \ {VideoFile} THEN Parent(p) ELSE "unknown"

\* the landing-zone root watched as well
Watched_landing_root(p) == TRUE

\* FileWatcher.start lines 106-108: the observer watches, not recursively,
\* the cluster directories that exist
Watched(p) ==
    /\ \E k \in DOMAIN watch_directories : watch_directories[k] = Parent(p)
    /\ DirExists(Parent(p))

\* ------------------------------------------------------------- state
VARIABLES
    driver,            \* "main" | "loop": who calls on_created
    disk,              \* paths present in the cluster directories
    mainpc,            \* position of main(): "scan", "join", "stop_join", "stopped", "returned", "loop"
    scanpc,            \* position of scan_existing_files: "dirs", "files", "await", "done", "aborted"
    scanDirs,          \* cluster directories the scan has still to visit
    scanList,          \* entries of the current directory's iterdir() not yet visited
    snapshot,          \* every supported file some iterdir() of the scan returned
    observer,          \* watchdog observer thread: "new", "running", "stopping", "dead", "stopped"
    obsPending,        \* path the observer thread holds between line 44 and line 52, or "none"
    events,            \* the observer's queue of create events
    delivered,         \* per path, the create events on_created has handled
    processing_files,  \* LandingZoneHandler.processing_files
    execs,             \* every call of process_file, in start order
    running,           \* index in execs of the coroutine the loop thread runs, 0 if none
    bronze,            \* per cluster: does the table directory exist, committed rows
    call,              \* one call of process_file followed through its data (DataSpec, WriterSpec)
    table              \* the bronze table that call writes to: directory, schema, rows

\* the state of the watcher, the scan and their tasks
watchVars == <<driver, disk, mainpc, scanpc, scanDirs, scanList, snapshot, observer,
               obsPending, events, delivered, processing_files, execs, running, bronze>>

\* the state of a call followed through its data
dataVars == <<call, table>>

vars == <<watchVars, dataVars>>

fsVars == <<disk>>
scanVars == <<scanpc, scanDirs, scanList, snapshot>>
obsVars == <<observer, obsPending, events>>

\* the stages of process_file, in the order of the code
StageOrder == <<"read", "normalize", "annotate", "write">>

\* a call of process_file that has just been entered
NewExec(p, c, o, start) ==
    [path |-> p, cluster |-> c, origin |-> o, pc |-> start, rows |-> 0, waited |-> 0,
     stages |-> <<>>, failed |-> "none", branch |-> "none", result |-> "none"]

Active(i) == execs[i].pc # "done"

\* live tasks (created by on_created) for path p that have not finished
ActiveTasks(p) ==
    {i \in DOMAIN execs : execs[i].path = p /\ execs[i].origin = "live" /\ Active(i)}

Sum(f) ==
    LET RECURSIVE S(_)
        S(D) == IF D = {} THEN 0 ELSE LET x == CHOOSE y \in D : TRUE IN f[x] + S(D \ {x})
    IN S(DOMAIN f)

\* a bronze table that does not exist: no directory, no commit
NoTable == [dir |-> FALSE, live |-> FALSE, schema |-> {}, rows |-> 0, log |-> {}]

Init ==
    /\ driver \in {"main", "loop"}
    /\ disk \in (IF driver = "main" THEN SUBSET PreExisting ELSE {Paths})
    /\ mainpc = (IF driver = "main" THEN "scan" ELSE "loop")
    /\ scanpc = (IF driver = "main" THEN "dirs" ELSE "done")
    /\ scanDirs = (IF driver = "main" THEN watch_directories ELSE <<>>)
    /\ scanList = {}
    /\ snapshot = {}
    /\ observer = "new"
    /\ obsPending = "none"
    /\ events = <<>>
    /\ delivered = [p \in Paths |-> 0]
    /\ processing_files = {}
    /\ execs = <<>>
    /\ running = 0
    /\ bronze = [c \in Clusters |-> [dir |-> FALSE, rows |-> 0]]
    /\ call = [pc |-> "none"]
    /\ table = NoTable

\* ----------------------------------------------------- on_created
\* the membership test left out
AlreadyProcessing_unchecked(p) == FALSE

\* line 41: the path is already being processed
AlreadyProcessing(p) == p \in processing_files

\* the extension test left out
Accepts_any_extension(p) == ~IsDirectory(p) /\ ~AlreadyProcessing(p)

\* lines 30-42: the event passes the directory, extension and in-flight filters
Accepts(p) ==
    /\ ~IsDirectory(p)
    /\ Lower(Suffix(p)) \in supported_extensions
    /\ ~AlreadyProcessing(p)

\* LandingZoneHandler.on_created. hasLoop: the calling thread runs an event
\* loop, so asyncio.create_task returns a task; without one it raises
\* RuntimeError after the path was added, and the caller is left holding it.
on_created(p, hasLoop) ==
    /\ delivered' = [delivered EXCEPT ![p] = @ + 1]
    /\ IF ~Accepts(p)
       THEN UNCHANGED <<processing_files, execs, obsPending>>
       ELSE /\ processing_files' = processing_files \cup {p}
            /\ IF hasLoop
               THEN /\ execs' = Append(execs, NewExec(p, detect_cluster(p), "live", "sleep"))
                    /\ UNCHANGED obsPending
               ELSE /\ obsPending' = p
                    /\ UNCHANGED execs

\* a coroutine of the running loop calls handler.on_created(event) for an
\* entry of a watched directory
HandlerCall(p) ==
    /\ driver = "loop"
    /\ Watched(p)
    /\ running = 0
    /\ Sum(delivered) < MaxEvents
    /\ on_created(p, TRUE)
    /\ UNCHANGED <<dataVars, driver, fsVars, mainpc, scanVars, observer, events, running, bronze>>

\* _process_file_async line 68: asyncio.sleep(1), in seconds
SettleDelay == 1

\* a second passes: every task inside asyncio.sleep has waited one more
Tick ==
    /\ \E i \in DOMAIN execs : execs[i].pc = "sleep" /\ execs[i].waited < SettleDelay
    /\ execs' = [i \in DOMAIN execs |->
                   IF execs[i].pc = "sleep" /\ execs[i].waited < SettleDelay
                   THEN [execs[i] EXCEPT !.waited = @ + 1] ELSE execs[i]]
    /\ UNCHANGED <<dataVars, driver, fsVars, mainpc, scanVars, obsVars, delivered, processing_files,
                   running, bronze>>

\* the sleep left out
SleepElapsed_no_sleep(i) == TRUE

\* line 68: the timer of asyncio.sleep(1) has fired
SleepElapsed(i) == execs[i].waited >= SettleDelay

\* _process_file_async lines 68-73: the settle delay is over and the loop resumes the task
TaskWake(i) ==
    /\ execs[i].pc = "sleep"
    /\ SleepElapsed(i)
    /\ running = 0
    /\ execs' = [execs EXCEPT ![i].pc = "read"]
    /\ running' = i
    /\ UNCHANGED <<dataVars, driver, fsVars, mainpc, scanVars, obsVars, delivered, processing_files, bronze>>

\* ----------------------------------------------------- process_file
\* the scan without its try/except: an exception leaves the for loop
ScanCatch_propagates(res) == IF res = "raised" THEN "aborted" ELSE "files"

\* scan_existing_files lines 151-156: the for loop goes on after a call of
\* process_file, whether it returned or raised
ScanCatch(res) == "files"

\* the write handed to another thread and awaited
save_suspends_awaited == TRUE

\* _save_to_bronze has no await between table_path.exists() and
\* write_deltalake: the coroutine keeps the loop thread for the whole write
save_suspends == FALSE

\* a call that raised is entered again
Finish_retries(i, r, res) ==
    IF res = "raised"
    THEN /\ execs' = [execs EXCEPT ![i] = [r EXCEPT !.pc = "read"]]
         /\ UNCHANGED <<running, processing_files, scanpc>>
    ELSE /\ execs' = [execs EXCEPT ![i] = [r EXCEPT !.pc = "done", !.result = res]]
         /\ running' = 0
         /\ processing_files' =
               IF r.origin = "live" THEN processing_files \ {r.path} ELSE processing_files
         /\ scanpc' = IF r.origin = "scan" THEN "files" ELSE scanpc

\* process_file has ended for execs[i], with r its record: the caller goes on.
\* A live task logs and, in its finally, discards the path (lines 75-81); the
\* scan catches and continues (lines 154-156).
Finish(i, r, res) ==
    /\ execs' = [execs EXCEPT ![i] = [r EXCEPT !.pc = "done", !.result = res]]
    /\ running' = 0
    /\ processing_files' =
          IF r.origin = "live" THEN processing_files \ {r.path} ELSE processing_files
    /\ scanpc' = IF r.origin = "scan" THEN ScanCatch(res) ELSE scanpc

Continue(i, r) ==
    /\ execs' = [execs EXCEPT ![i] = r]
    /\ UNCHANGED <<running, processing_files, scanpc>>

stageFrame == <<dataVars, driver, fsVars, mainpc, scanDirs, scanList, snapshot, obsVars, delivered>>

\* what _read_file returns: None (the reader raised), or a frame of n rows
ReadOutcomes == {-1} \cup (0 .. MaxRows)

\* the height test left out
EmptyOrInvalid_none_only(n) == n = -1

\* line 42: df is None or df.height == 0
EmptyOrInvalid(n) == n = -1 \/ n = 0

\* lines 40-44: _read_file, then the empty check
ExecRead(i) ==
    /\ running = i
    /\ execs[i].pc = "read"
    /\ LET r == [execs[i] EXCEPT !.stages = Append(@, "read")] IN
       IF Lower(Suffix(r.path)) \notin supported_extensions
       THEN Finish(i, [r EXCEPT !.failed = "read"], "raised")
       ELSE \E n \in ReadOutcomes :
              IF EmptyOrInvalid(n)
              THEN Finish(i, [r EXCEPT !.rows = n], "skipped")
              ELSE Continue(i, [r EXCEPT !.rows = n, !.pc = "normalize"])
    /\ UNCHANGED <<stageFrame, bronze>>

\* _add_metadata line 120: _clean_null_columns returns a frame (normal or
\* fallback path) or raises final_e
ExecNormalize(i) ==
    /\ running = i
    /\ execs[i].pc = "normalize"
    /\ LET r == [execs[i] EXCEPT !.stages = Append(@, "normalize")] IN
       \E ok \in BOOLEAN :
          IF ok THEN Continue(i, [r EXCEPT !.pc = "annotate"])
                ELSE Finish(i, [r EXCEPT !.failed = "normalize"], "raised")
    /\ UNCHANGED <<stageFrame, bronze>>

\* _add_metadata lines 122-128: with_columns (file_path.stat() may raise)
ExecAnnotate(i) ==
    /\ running = i
    /\ execs[i].pc = "annotate"
    /\ LET r == [execs[i] EXCEPT !.stages = Append(@, "annotate")] IN
       \E ok \in BOOLEAN :
          IF ok THEN Continue(i, [r EXCEPT !.pc = "exists"])
                ELSE Finish(i, [r EXCEPT !.failed = "annotate"], "raised")
    /\ UNCHANGED <<stageFrame, bronze>>

\* the height of the annotated table of a file read as n rows: n, or one
\* row when _clean_null_columns dropped every column (lines 155-161) and the
\* literals of line 122 were added to a table without columns
WrittenHeights(n) == {n, 1}

\* the directory left to write_deltalake to create
MkdirBeforeWrite_left_out(exists) == exists

\* line 204: table_path.mkdir(parents=True, exist_ok=True) on the create
\* branch, before write_deltalake is called
MkdirBeforeWrite(exists) == TRUE

\* the existence test left out: every write takes the create branch
TableExists_never(c) == FALSE

\* _save_to_bronze line 193: table_path.exists()
TableExists(c) == bronze[c].dir

\* _save_to_bronze lines 186-204: the existence check chooses the branch; the
\* create branch makes the directory
ExecExists(i) ==
    /\ running = i
    /\ execs[i].pc = "exists"
    /\ LET r == [execs[i] EXCEPT !.stages = Append(@, "write"), !.pc = "write"]
           c == r.cluster IN
       IF TableExists(c)
       THEN /\ execs' = [execs EXCEPT ![i] = [r EXCEPT !.branch = "append"]]
            /\ UNCHANGED bronze
       ELSE /\ execs' = [execs EXCEPT ![i] = [r EXCEPT !.branch = "create"]]
            /\ bronze' = [bronze EXCEPT ![c].dir = MkdirBeforeWrite(@)]
    /\ running' = IF save_suspends THEN 0 ELSE i
    /\ UNCHANGED <<stageFrame, processing_files, scanpc>>

\* _save_to_bronze lines 195-214: write_deltalake commits or raises
ExecWrite(i) ==
    /\ running = i \/ (save_suspends /\ running = 0)
    /\ execs[i].pc = "write"
    /\ LET r == execs[i]
           c == r.cluster IN
       \E ok \in BOOLEAN, h \in WrittenHeights(r.rows) :
          IF ok
          THEN /\ bronze' = [bronze EXCEPT ![c].dir = TRUE, ![c].rows =
                                IF r.branch = "append" THEN @ + h ELSE h]
               /\ Finish(i, r, "ok")
          ELSE /\ UNCHANGED bronze
               /\ Finish(i, [r EXCEPT !.failed = "write"], "raised")
    /\ UNCHANGED stageFrame

\* ----------------------------------------------- scan_existing_files
\* cap on the calls of process_file in one run
ExecRoom == Len(execs) < MaxExecs

\* line 150: file_path.is_file() and a supported suffix
ScanMatches(p) == ~IsDirectory(p) /\ Lower(Suffix(p)) \in supported_extensions

\* an entry that is visited again
ScanRest_revisits(list, p) == list

\* the entries of the for loop over iterdir() left after visiting p
ScanRest(list, p) == list \ {p}

\* lines 136-149: the next cluster directory; a missing one is skipped, an
\* existing one is listed (iterdir) once
ScanDir ==
    /\ driver = "main"
    /\ scanpc = "dirs"
    /\ IF scanDirs = <<>>
       THEN /\ scanpc' = "done"
            /\ UNCHANGED <<scanDirs, scanList, snapshot>>
       ELSE /\ scanDirs' = Tail(scanDirs)
            /\ IF DirExists(Head(scanDirs))
               THEN LET listed == {p \in disk : Parent(p) = Head(scanDirs)} IN
                    /\ scanList' = listed
                    /\ snapshot' = snapshot \cup {p \in listed : ScanMatches(p)}
                    /\ scanpc' = "files"
               ELSE UNCHANGED <<scanpc, scanList, snapshot>>
    /\ UNCHANGED <<dataVars, driver, fsVars, mainpc, obsVars, delivered, processing_files, execs,
                   running, bronze>>

\* lines 149-153: the next entry of the directory; a matching file enters
\* process_file on the loop thread
ScanFile ==
    /\ driver = "main"
    /\ scanpc = "files"
    /\ IF scanList = {}
       THEN /\ scanpc' = "dirs"
            /\ UNCHANGED <<scanList, execs, running>>
       ELSE \E p \in scanList :
              /\ scanList' = ScanRest(scanList, p)
              /\ IF ScanMatches(p)
                 THEN /\ ExecRoom
                      /\ execs' = Append(execs, NewExec(p, Parent(p), "scan", "read"))
                      /\ running' = Len(execs) + 1
                      /\ scanpc' = "await"
                 ELSE UNCHANGED <<scanpc, execs, running>>
    /\ UNCHANGED <<dataVars, driver, fsVars, mainpc, scanDirs, snapshot, obsVars, delivered,
                   processing_files, bronze>>

\* ------------------------------------------------- main, FileWatcher
\* the scan started but not awaited
AwaitedScan_not_awaited == TRUE

\* main lines 164-170: scan_existing_files is awaited before the watcher is made
AwaitedScan == scanpc = "done"

\* FileWatcher() and start() up to observer.join(): the existing cluster
\* directories are watched, the observer thread runs, main blocks in join
MainStart ==
    /\ driver = "main"
    /\ mainpc = "scan"
    /\ AwaitedScan
    /\ mainpc' = "join"
    /\ observer' = "running"
    /\ UNCHANGED <<dataVars, driver, fsVars, scanVars, obsPending, events, delivered, processing_files,
                   execs, running, bronze>>

\* some producer creates a file or directory in a cluster directory; a
\* running observer that watches the directory queues a create event
EnvCreate(p) ==
    /\ driver = "main"
    /\ mainpc \in {"scan", "join"}
    /\ p \notin disk
    /\ disk' = disk \cup {p}
    /\ events' = IF observer = "running" /\ Watched(p)
                 THEN Append(events, p) ELSE events
    /\ UNCHANGED <<dataVars, driver, mainpc, scanVars, observer, obsPending, delivered,
                   processing_files, execs, running, bronze>>

\* api/main.py lines 58-77 and 101-124: an ingestion endpoint writes its
\* .json file into the landing-zone root
ingest_video ==
    /\ driver = "main"
    /\ mainpc \in {"scan", "join"}
    /\ VideoFile \notin disk
    /\ disk' = disk \cup {VideoFile}
    /\ events' = IF observer = "running" /\ Watched(VideoFile)
                 THEN Append(events, VideoFile) ELSE events
    /\ UNCHANGED <<dataVars, driver, mainpc, scanVars, observer, obsPending, delivered,
                   processing_files, execs, running, bronze>>

\* the observer thread takes an event and calls on_created, which runs to
\* line 44; the thread has no event loop
ObserverDispatch ==
    /\ driver = "main"
    /\ observer = "running"
    /\ obsPending = "none"
    /\ events # <<>>
    /\ events' = Tail(events)
    /\ on_created(Head(events), FALSE)
    /\ UNCHANGED <<dataVars, driver, fsVars, mainpc, scanVars, observer, running, bronze>>

\* line 52 on the observer thread: asyncio.create_task raises RuntimeError
\* (no running event loop). The exception leaves on_created into watchdog's
\* dispatch loop, which is not code of this repository: the thread ends or
\* carries on. The path stays in processing_files either way.
ObserverCreateTask ==
    /\ obsPending # "none"
    /\ obsPending' = "none"
    /\ \E dies \in BOOLEAN : observer' = IF dies THEN "dead" ELSE observer
    /\ UNCHANGED <<dataVars, driver, fsVars, mainpc, scanVars, events, delivered, processing_files,
                   execs, running, bronze>>

\* start line 117: observer.join() returns because the thread has ended;
\* start() and main() return
JoinReturns ==
    /\ mainpc = "join"
    /\ observer = "dead"
    /\ mainpc' = "returned"
    /\ UNCHANGED <<dataVars, driver, fsVars, scanVars, obsVars, delivered, processing_files, execs,
                   running, bronze>>

\* start lines 118-119, stop lines 123-124: KeyboardInterrupt in join, then
\* observer.stop()
KeyboardInterrupt ==
    /\ mainpc = "join"
    /\ observer = "running"
    /\ mainpc' = "stop_join"
    /\ observer' = "stopping"
    /\ UNCHANGED <<dataVars, driver, fsVars, scanVars, obsPending, events, delivered, processing_files,
                   execs, running, bronze>>

\* stop lines 125-126: observer.join() returns once the thread has left its
\* handler; stop() returns
StopJoin ==
    /\ mainpc = "stop_join"
    /\ obsPending = "none"
    /\ mainpc' = "stopped"
    /\ observer' = IF observer = "dead" THEN "dead" ELSE "stopped"
    /\ UNCHANGED <<dataVars, driver, fsVars, scanVars, obsPending, events, delivered, processing_files,
                   execs, running, bronze>>

\* ------------------------------------------------------ specification
\* the steps of the program's own threads
ProgramStep ==
    \/ Tick
    \/ \E i \in DOMAIN execs : TaskWake(i)
    \/ \E i \in DOMAIN execs : ExecRead(i)
    \/ \E i \in DOMAIN execs : ExecNormalize(i)
    \/ \E i \in DOMAIN execs : ExecAnnotate(i)
    \/ \E i \in DOMAIN execs : ExecExists(i)
    \/ \E i \in DOMAIN execs : ExecWrite(i)
    \/ ScanDir
    \/ ScanFile
    \/ MainStart
    \/ ObserverDispatch
    \/ ObserverCreateTask
    \/ JoinReturns
    \/ StopJoin

\* the steps of the environment: files appear, events are delivered, the
\* user interrupts
EnvStep ==
    \/ \E p \in Paths \ {VideoFile} : EnvCreate(p)
    \/ ingest_video
    \/ \E p \in Paths : HandlerCall(p)
    \/ KeyboardInterrupt

Next == ProgramStep \/ EnvStep

Spec == Init /\ [][Next]_vars

\* the loop and the threads keep running what is runnable
FairSpec == Spec /\ WF_vars(ProgramStep)

\* ------------------------------------------------ tables (DataFrames)
\* A table is [height, cols]; a column is [name, dtype, cells] with one cell
\* per row.  A cell is "v" (some value), "null" (missing), a text the
\* pipeline itself produced ("", "nan", "None") or, in an audit column, the
\* literal the annotator wrote.
Range(s) == {s[k] : k \in DOMAIN s}

Rep(x, n) == [k \in 1 .. n |-> x]

ColNames(df) == {df.cols[k].name : k \in DOMAIN df.cols}

Col(df, n) == df.cols[CHOOSE k \in DOMAIN df.cols : df.cols[k].name = n]

Schema(df) == {<<df.cols[k].name, df.cols[k].dtype>> : k \in DOMAIN df.cols}

Nested == {"List", "Struct"}

\* ------------------------------------------------------- _read_csv
Separators_semicolon_first == <<";", ",", "\t", "|">>
Separators == <<",", ";", "\t", "|">>

\* what one parser call can do with a file: raise, return no row, return
\* every line as one column (the separator is not in the file), or split
\* the lines into the file's columns
Shapes == {"raise", "empty", "one", "split"}

NoDF == [height |-> 0, cols |-> <<>>]

FileRows == (1 .. MaxHeight) \cup {10}

CsvNames == <<"c1", "c2", "c3">>

CsvFiles ==
    {[kind |-> "csv", name |-> "f.csv", rows |-> r, parse |-> ps, pandas |-> pd,
      excel |-> "raise", sheet |-> NoDF] :
        r \in FileRows, ps \in [Range(Separators) -> Shapes], pd \in Shapes}

ShapeDF(f, shape) ==
    LET n == IF shape = "split" THEN Len(CsvNames) ELSE 1
        h == IF shape = "empty" THEN 0 ELSE f.rows
    IN  [height |-> h,
         cols |-> [k \in 1 .. n |-> [name |-> CsvNames[k], dtype |-> "Utf8",
                                      cells |-> Rep("v", h)]]]

HasData(df) == df.height > 0

\* lines 106-111: the permissive parser, tried after the loop
pandas_fallback(f) ==
    IF f.pandas = "raise"
    THEN [status |-> "raise", via |-> "pandas", df |-> NoDF]
    ELSE [status |-> "ok", via |-> "pandas", df |-> ShapeDF(f, f.pandas)]

\* lines 91-104: the loop over the separators, from candidate k on
RECURSIVE probe(_, _)
probe(f, k) ==
    IF k > Len(Separators)
    THEN pandas_fallback(f)
    ELSE LET sep == Separators[k]
         IN  IF f.parse[sep] # "raise" /\ HasData(ShapeDF(f, f.parse[sep]))
             THEN [status |-> "ok", via |-> sep, df |-> ShapeDF(f, f.parse[sep])]
             ELSE probe(f, k + 1)

read_csv(f) == probe(f, 1)

\* ------------------------------------------------------ _read_excel
\* The sheets an Excel read returns: columns x and y of any type, with or
\* without missing cells, and possibly a column that has an audit column's
\* name.
CellSeqs(h) == [1 .. h -> {"v", "null"}]

ColumnsOf(n, types, h) ==
    {<<>>} \cup
    {<<[name |-> n, dtype |-> t, cells |-> cs]>> :
        t \in types \ ({"Null"} \cup Nested), cs \in CellSeqs(h)} \cup
    {<<[name |-> n, dtype |-> "Null", cells |-> Rep("null", h)]>> :
        t \in types \cap {"Null"}} \cup
    {<<[name |-> n, dtype |-> t, cells |-> Rep("v", h)]>> : t \in types \cap Nested}

Sheets ==
    UNION {{[height |-> h, cols |-> x \o y \o a] :
               x \in ColumnsOf("x", {"Int64", "Utf8", "Null", "List"}, h),
               y \in ColumnsOf("y", {"Utf8", "Null", "Struct"}, h),
               a \in {<<>>, <<[name |-> "_cluster", dtype |-> "Utf8",
                               cells |-> Rep("v", h)]>>}} :
           h \in 0 .. MaxHeight}

ExcelFiles ==
    {[kind |-> "excel", name |-> "f.xlsx", rows |-> 0,
      parse |-> [s \in Range(Separators) |-> "raise"], pandas |-> "raise",
      excel |-> IF sh = NoDF THEN "raise" ELSE "ok", sheet |-> sh] :
        sh \in {t \in Sheets : t.cols # <<>>} \cup {NoDF}}

\* lines 71-85: polars first, pandas when polars raises; f.excel says
\* whether both raised, f.sheet is what the first to succeed returned
read_excel(f) ==
    IF f.excel = "raise"
    THEN [status |-> "raise", via |-> "excel", df |-> NoDF]
    ELSE [status |-> "ok", via |-> "excel", df |-> f.sheet]

\* lines 58-69: any exception of the reader becomes None
read_file(f) ==
    LET r == IF f.kind = "csv" THEN read_csv(f) ELSE read_excel(f)
    IN  IF r.status = "raise" THEN [r EXCEPT !.status = "none"] ELSE r

\* ------------------------------------------- _clean_null_columns
\* lines 137-145: the columns cast to string before the pandas round trip
NeedsCast_null_only(c) == c.dtype = "Null"
NeedsCast(c) == c.dtype = "Null" \/ c.dtype \in Nested

\* line 149
cast(df) ==
    [df EXCEPT !.cols = [k \in DOMAIN df.cols |->
        IF NeedsCast(df.cols[k]) THEN [df.cols[k] EXCEPT !.dtype = "Utf8"]
        ELSE df.cols[k]]]

\* the cast of a nested column to string is refused by some polars versions
CastCanRaise(df) ==
    \E k \in DOMAIN df.cols : NeedsCast(df.cols[k]) /\ df.cols[k].dtype \in Nested

\* A pandas frame: a column keeps in "holds" the polars type it came from.
\* An integer column with a missing cell becomes float64 with NaN, every
\* other missing cell becomes the object None in an object column.
IsNA(x) == x \in {"NaN", "NoneObject"}

to_pandas(df) ==
    [df EXCEPT !.cols = [k \in DOMAIN df.cols |->
        LET c == df.cols[k]
            num == c.dtype = "Int64"
        IN  [name  |-> c.name,
             holds |-> c.dtype,
             dtype |-> IF ~num THEN "object"
                       ELSE IF \E r \in DOMAIN c.cells : c.cells[r] = "null"
                            THEN "float64" ELSE "int64",
             cells |-> [r \in DOMAIN c.cells |->
                          IF c.cells[r] # "null" THEN c.cells[r]
                          ELSE IF num THEN "NaN" ELSE "NoneObject"]]]]

NotAllNA(c) == \E r \in DOMAIN c.cells : ~IsNA(c.cells[r])

\* line 155: dropna(axis=1, how='all')
dropna(pdf) == [pdf EXCEPT !.cols = SelectSeq(pdf.cols, NotAllNA)]

\* line 158: fillna(''); a float column that had a NaN now holds floats and
\* strings
fillna(pdf) ==
    [pdf EXCEPT !.cols = [k \in DOMAIN pdf.cols |->
        LET c == pdf.cols[k]
        IN  [c EXCEPT !.dtype = IF \E r \in DOMAIN c.cells : IsNA(c.cells[r])
                                THEN "object" ELSE @,
                      !.cells = [r \in DOMAIN c.cells |->
                                   IF IsNA(c.cells[r]) THEN "" ELSE c.cells[r]]]]]

\* lines 172-173: astype(str) writes a missing cell as the text nan or None,
\* so the fillna('') after it finds nothing to fill
astype_str(pdf) ==
    [pdf EXCEPT !.cols = [k \in DOMAIN pdf.cols |->
        LET c == pdf.cols[k]
        IN  [c EXCEPT !.dtype = "object", !.holds = "Utf8",
                      !.cells = [r \in DOMAIN c.cells |->
                                   IF c.cells[r] = "NaN" THEN "nan"
                                   ELSE IF c.cells[r] = "NoneObject" THEN "None"
                                   ELSE c.cells[r]]]]]

\* an object column of numbers and strings has no arrow type
Mixed(c) ==
    /\ c.dtype = "object" /\ c.holds = "Int64"
    /\ \E r \in DOMAIN c.cells : c.cells[r] = ""

FromPandasRaises(pdf) == \E k \in DOMAIN pdf.cols : Mixed(pdf.cols[k])

\* lines 161, 175: a frame without columns comes back with no row
from_pandas(pdf) ==
    [height |-> IF pdf.cols = <<>> THEN 0 ELSE pdf.height,
     cols |-> [k \in DOMAIN pdf.cols |->
        LET c == pdf.cols[k]
        IN  [name  |-> c.name,
             dtype |-> IF c.dtype = "int64" THEN "Int64"
                       ELSE IF c.dtype = "float64" THEN "Float64"
                       ELSE IF c.holds \in Nested THEN c.holds ELSE "Utf8",
             cells |-> c.cells]]]

\* lines 130-180.  castRaises and pandasFails are what the libraries do on
\* this call: the cast of a nested column raising, to_pandas raising.
clean_null_columns(df, castRaises, pandasFails) ==
    LET castFails == castRaises /\ CastCanRaise(df)
        df1    == IF castFails THEN df ELSE cast(df)
        filled == fillna(dropna(to_pandas(df1)))
    IN  IF ~castFails /\ ~pandasFails /\ ~FromPandasRaises(filled)
        THEN [status |-> "ok", path |-> "normal", df |-> from_pandas(filled)]
        ELSE IF pandasFails
        THEN [status |-> "raise", path |-> "fallback", df |-> NoDF]
        ELSE [status |-> "ok", path |-> "fallback",
              df |-> from_pandas(astype_str(to_pandas(df1)))]

\* ---------------------------------------------------- _add_metadata
\* lines 123-127: the five literals, in the order of the list
AuditNames ==
    <<"_source_file", "_cluster", "_ingested_at", "_file_size_bytes", "_row_count">>

AuditLiterals(f, cluster, height) ==
    <<[name |-> "_source_file",     dtype |-> "Utf8",  value |-> f.name],
      [name |-> "_cluster",         dtype |-> "Utf8",  value |-> cluster],
      [name |-> "_ingested_at",     dtype |-> "Utf8",  value |-> "now"],
      [name |-> "_file_size_bytes", dtype |-> "Int32", value |-> "st_size"],
      [name |-> "_row_count",       dtype |-> "Int32", value |-> ToString(height)]>>

\* with_columns for one literal: a column of that name is replaced where it
\* stands, a new name is appended; a literal on a frame without columns
\* makes one row
with_column_keeps_source(df, lit) ==
    LET h == IF df.cols = <<>> THEN 1 ELSE df.height
        c == [name |-> lit.name, dtype |-> lit.dtype, cells |-> Rep(lit.value, h)]
    IN  IF lit.name \in ColNames(df) THEN df
        ELSE [height |-> h, cols |-> Append(df.cols, c)]
with_column(df, lit) ==
    LET h == IF df.cols = <<>> THEN 1 ELSE df.height
        c == [name |-> lit.name, dtype |-> lit.dtype, cells |-> Rep(lit.value, h)]
    IN  [height |-> h,
         cols |-> IF lit.name \in ColNames(df)
                  THEN [k \in DOMAIN df.cols |->
                          IF df.cols[k].name = lit.name THEN c ELSE df.cols[k]]
                  ELSE Append(df.cols, c)]

RECURSIVE with_columns(_, _)
with_columns(df, lits) ==
    IF lits = <<>> THEN df
    ELSE with_columns(with_column(df, Head(lits)), Tail(lits))

\* lines 117-128: height is measured on the table as read (line 127);
\* statOK is whether file_path.stat() finds the file
add_metadata(df, f, cluster, castRaises, pandasFails, statOK) ==
    LET clean == clean_null_columns(df, castRaises, pandasFails)
    IN  IF clean.status = "raise" \/ ~statOK
        THEN [status |-> "raise", path |-> clean.path, clean |-> clean.df, df |-> NoDF]
        ELSE [status |-> "ok", path |-> clean.path, clean |-> clean.df,
              df |-> with_columns(clean.df, AuditLiterals(f, cluster, df.height))]

\* --------------------------------------------------- _save_to_bronze
\* table.schema is the set of <<name, type>> of the table, table.log the
\* schemas of the commits made so far.
TypeConflict(t, df) ==
    \E a \in t.schema, b \in Schema(df) : a[1] = b[1] /\ a[2] # b[2]

SameColumns(t, df) == {a[1] : a \in t.schema} = ColNames(df)

Commit(t, df, schema, rows) ==
    [t EXCEPT !.live = TRUE, !.schema = schema, !.rows = rows,
              !.log = @ \cup {Schema(df)}]

\* line 199
SchemaMode_unset == "none"
SchemaMode == "merge"

\* write_deltalake as called on lines 195-200 and 205-209
write_deltalake(t, df, mode, schema_mode) ==
    IF ~t.live
    THEN [status |-> "ok", table |-> Commit(t, df, Schema(df), df.height)]
    ELSE IF TypeConflict(t, df)
    THEN [status |-> "schema_error", table |-> t]
    ELSE IF ~SameColumns(t, df) /\ schema_mode # "merge"
    THEN [status |-> "schema_error", table |-> t]
    ELSE IF mode = "overwrite"
    THEN [status |-> "ok", table |-> Commit(t, df, Schema(df), df.height)]
    ELSE [status |-> "ok",
          table |-> Commit(t, df, t.schema \cup Schema(df), t.rows + df.height)]

\* lines 212-214 and 54-56: the exception is logged and raised again
SaveResult_swallowed(status) == "ok"
SaveResult(status) == IF status = "ok" THEN "ok" ELSE "raised"

\* ------------------------------------- one call followed through its data
Parked ==
    /\ driver = "none"
    /\ disk = {}
    /\ mainpc = "stopped"
    /\ scanpc = "done"
    /\ scanDirs = <<>>
    /\ scanList = {}
    /\ snapshot = {}
    /\ observer = "new"
    /\ obsPending = "none"
    /\ events = <<>>
    /\ delivered = [p \in Paths |-> 0]
    /\ processing_files = {}
    /\ execs = <<>>
    /\ running = 0
    /\ bronze = [c \in Clusters |-> [dir |-> FALSE, rows |-> 0]]

NoRead == [status |-> "none", via |-> "none", df |-> NoDF]

NewCall(f, n) ==
    [pc |-> "read", n |-> n, file |-> f, cluster |-> "diabetes", csv |-> "none",
     read |-> NoRead, path |-> "none", clean |-> NoDF, df |-> NoDF,
     branch |-> "none", conflict |-> FALSE, status |-> "none",
     result |-> "none", attempts |-> 0]

DataFiles == CsvFiles \cup ExcelFiles

DataInit ==
    /\ Parked
    /\ call \in {NewCall(f, 1) : f \in DataFiles}
    /\ table = NoTable

\* lines 40-44
DRead ==
    /\ call.pc = "read"
    /\ LET r == read_file(call.file)
       IN  call' = [call EXCEPT
                !.read = r,
                !.csv = IF call.file.kind = "csv" THEN read_csv(call.file).status
                        ELSE "none",
                !.pc = IF r.status = "none" \/ ~HasData(r.df) THEN "done"
                       ELSE "normalize",
                !.result = IF r.status = "none" \/ ~HasData(r.df) THEN "skipped"
                           ELSE "none"]
    /\ UNCHANGED <<watchVars, table>>

\* line 120
DNormalize ==
    /\ call.pc = "normalize"
    /\ \E castRaises \in BOOLEAN, pandasFails \in BOOLEAN :
         LET c == clean_null_columns(call.read.df, castRaises, pandasFails)
         IN  call' = [call EXCEPT
                  !.path = c.path, !.clean = c.df,
                  !.pc = IF c.status = "ok" THEN "annotate" ELSE "done",
                  !.result = IF c.status = "ok" THEN "none" ELSE "raised"]
    /\ UNCHANGED <<watchVars, table>>

\* lines 122-128
DAnnotate ==
    /\ call.pc = "annotate"
    /\ \E statOK \in BOOLEAN :
         call' = [call EXCEPT
             !.df = IF statOK
                    THEN with_columns(call.clean,
                             AuditLiterals(call.file, call.cluster, call.read.df.height))
                    ELSE NoDF,
             !.pc = IF statOK THEN "exists" ELSE "done",
             !.result = IF statOK THEN "none" ELSE "raised"]
    /\ UNCHANGED <<watchVars, table>>

\* lines 193, 204
DExists ==
    /\ call.pc = "exists"
    /\ call' = [call EXCEPT !.pc = "write",
                            !.branch = IF table.dir THEN "append" ELSE "create"]
    /\ table' = [table EXCEPT !.dir = TRUE]
    /\ UNCHANGED watchVars

\* lines 195-200, 205-209, 212-214
DWrite ==
    /\ call.pc = "write"
    /\ \E storageOK \in BOOLEAN :
         LET out == IF ~storageOK
                    THEN [status |-> "storage_error", table |-> table]
                    ELSE IF call.branch = "append"
                    THEN write_deltalake(table, call.df, "append", SchemaMode)
                    ELSE write_deltalake(table, call.df, "overwrite", "none")
         IN  /\ table' = out.table
             /\ call' = [call EXCEPT
                    !.pc = "done",
                    !.conflict = table.live /\ TypeConflict(table, call.df),
                    !.status = out.status,
                    !.result = SaveResult(out.status),
                    !.attempts = @ + 1]
    /\ UNCHANGED watchVars

DataNext == DRead \/ DNormalize \/ DAnnotate \/ DExists \/ DWrite

DataSpec == DataInit /\ [][DataNext]_vars

\* ------------------------------ files written one after the other
\* Sheets without missing cells and without nested columns: x, y and z are
\* absent, integer or string.
PlainColumns(n, h) ==
    {<<>>} \cup {<<[name |-> n, dtype |-> t, cells |-> Rep("v", h)]>> :
                    t \in {"Int64", "Utf8"}}

PlainSheets ==
    UNION {{[height |-> h, cols |-> x \o y \o z] :
               x \in PlainColumns("x", h), y \in PlainColumns("y", h),
               z \in PlainColumns("z", h)} : h \in 1 .. MaxHeight}

PlainFiles ==
    {[kind |-> "excel", name |-> "f.xlsx", rows |-> 0,
      parse |-> [s \in Range(Separators) |-> "raise"], pandas |-> "raise",
      excel |-> "ok", sheet |-> sh] : sh \in {t \in PlainSheets : t.cols # <<>>}}

IdleCall == [NewCall(CHOOSE f \in PlainFiles : TRUE, 0) EXCEPT !.pc = "done"]

WriterInit ==
    /\ Parked
    /\ call = IdleCall
    /\ table = NoTable

\* lines 40-47 for a file that is read, normalized and annotated without
\* an exception
WProcess ==
    /\ call.pc = "done"
    /\ call.n < MaxFiles
    /\ \E f \in PlainFiles :
         LET r == read_file(f)
             a == add_metadata(r.df, f, "diabetes", FALSE, FALSE, TRUE)
         IN  call' = [NewCall(f, call.n + 1) EXCEPT
                  !.read = r, !.path = a.path, !.clean = a.clean, !.df = a.df,
                  !.pc = "exists"]
    /\ UNCHANGED <<watchVars, table>>

WriterNext == WProcess \/ DExists \/ DWrite

WriterSpec == WriterInit /\ [][WriterNext]_vars

\* ------------------------------------------------------------ claims
ExecsOf(p) == {i \in DOMAIN execs : execs[i].path = p}

IsPrefix(s, t) == Len(s) <= Len(t) /\ \A k \in 1 .. Len(s) : s[k] = t[k]

InSeq(x, s) == \E k \in 1 .. Len(s) : s[k] = x

\* C1: a path never has two unfinished tasks, and a create event handled by
\* on_created while the path's task is unfinished starts no task and leaves
\* the in-flight set as it was.
C1_AtMostOneTaskPerPath ==
    /\ [](\A p \in Paths : Cardinality(ActiveTasks(p)) <= 1)
    /\ [][\A p \in Paths :
            (delivered'[p] = delivered[p] + 1 /\ ActiveTasks(p) # {})
               => (execs' = execs /\ processing_files' = processing_files)]_vars

\* two events were handled for a path whose only task is still unfinished
C1_Witness ==
    \E p \in Paths :
       /\ delivered[p] = 2
       /\ Cardinality(ExecsOf(p)) = 1
       /\ Cardinality(ActiveTasks(p)) = 1

\* C2: every path in processing_files has exactly one unfinished task.
C2_InFlightHasOneTask ==
    \A p \in processing_files : Cardinality(ActiveTasks(p)) = 1

\* C3: every path that enters processing_files eventually leaves it, unless
\* the user stops the watcher first.
C3_AcceptedEventuallyRemoved ==
    \A p \in Paths :
       (p \in processing_files) ~> (p \notin processing_files \/ mainpc = "stopped")

\* C4: every supported file present in a cluster directory while the program
\* runs is eventually run through process_file, unless the user stops the
\* watcher first.
C4_EveryFileProcessed ==
    \A p \in Paths :
       (driver = "main" /\ p \in disk /\ ScanMatches(p))
          ~> ((\E i \in ExecsOf(p) : execs[i].pc = "done") \/ mainpc = "stopped")

\* C5: in every call of process_file the stages start in the order read,
\* normalize, annotate, write, and the write starts only after a read of at
\* least one row and a normalize and an annotate that did not raise.
C5_StagesInOrder ==
    \A i \in DOMAIN execs :
       /\ IsPrefix(execs[i].stages, StageOrder)
       /\ InSeq("write", execs[i].stages) =>
             /\ execs[i].rows >= 1
             /\ execs[i].failed \notin {"read", "normalize", "annotate"}

\* a file went through all four stages and was committed
C5_Witness ==
    \E i \in DOMAIN execs : execs[i].stages = StageOrder /\ execs[i].result = "ok"

\* C6: while scan_existing_files has not finished, the observer has not been
\* started, on_created has handled no event and no live task exists.
C6_ScanBeforeWatch ==
    scanpc # "done" =>
       /\ observer = "new"
       /\ Sum(delivered) = 0
       /\ \A i \in DOMAIN execs : execs[i].origin = "scan"

\* the scan is inside process_file and a file has been created since it began
C6_Witness ==
    /\ scanpc = "await"
    /\ "raw/diabetes/b.XLSX" \in disk
    /\ "raw/diabetes/a.csv" \in snapshot

\* C7: under main(), no path is run through process_file more than once, by
\* the scan or by a live task.
C7_ProcessedOncePerCreation ==
    driver = "main" => \A p \in Paths : Cardinality(ExecsOf(p)) <= 1

\* the file created during the run was listed by the scan and committed, and
\* the watcher is running
C7_Witness ==
    /\ "raw/diabetes/b.XLSX" \in snapshot
    /\ \E i \in ExecsOf("raw/diabetes/b.XLSX") : execs[i].result = "ok"
    /\ observer = "running"

\* C8: when FileWatcher.stop has returned, the in-flight set is empty.
C8_StopDrains == mainpc = "stopped" => processing_files = {}

C10_WritesSerialized ==
    \A c \in Clusters :
       Cardinality({i \in DOMAIN execs : execs[i].cluster = c /\ execs[i].pc = "write"}) <= 1

\* one task is writing while another task of the same cluster is pending
C10_Witness ==
    \E i, j \in DOMAIN execs :
       /\ i # j
       /\ execs[i].cluster = execs[j].cluster
       /\ execs[i].pc = "write"
       /\ execs[j].pc = "sleep"

\* C11: the create (overwrite) branch is only ever applied to a table with no
\* committed rows, and no step lowers a table's committed row count.
C11_CreateOnlyOnce ==
    /\ [](\A i \in DOMAIN execs :
            (execs[i].pc = "write" /\ execs[i].branch = "create")
               => bronze[execs[i].cluster].rows = 0)
    /\ [][\A c \in Clusters : bronze'[c].rows >= bronze[c].rows]_vars

\* a second file was appended to a table that the first file created
C11_Witness ==
    \E i, j \in DOMAIN execs :
       /\ execs[i].branch = "create" /\ execs[i].result = "ok"
       /\ execs[j].branch = "append" /\ execs[j].result = "ok"
       /\ bronze[execs[i].cluster].rows = execs[i].rows + execs[j].rows

\* C16: a call of process_file whose read returned None or zero rows ends
\* after the read stage, and the step that ends it changes no table.
C16_EmptyCausesNoWrite ==
    /\ [](\A i \in DOMAIN execs :
            (InSeq("read", execs[i].stages) /\ execs[i].rows <= 0)
               => /\ execs[i].stages = <<"read">>
                  /\ execs[i].pc = "done"
                  /\ execs[i].branch = "none")
    /\ [][\A i \in DOMAIN execs :
            (execs[i].pc = "read" /\ execs'[i].pc = "done") => bronze' = bronze]_vars

\* a table holds rows, and afterwards an empty read and a failed read were skipped
C16_Witness ==
    \E i, j, k \in DOMAIN execs :
       /\ i < j /\ i < k
       /\ execs[i].result = "ok" /\ bronze[execs[i].cluster].rows = execs[i].rows
       /\ execs[j].result = "skipped" /\ execs[j].rows = 0
       /\ execs[k].result = "skipped" /\ execs[k].rows = -1

\* C20: a live task is past its sleep only after the settle delay has passed
\* since on_created accepted the event.
C20_SettleBeforeRead ==
    \A i \in DOMAIN execs :
       (execs[i].origin = "live" /\ execs[i].pc # "sleep") => execs[i].waited >= 1

\* a live task has read its file
C20_Witness ==
    \E i \in DOMAIN execs :
       execs[i].origin = "live" /\ InSeq("read", execs[i].stages) /\ execs[i].waited = 1

\* C17: the reader of a CSV probes comma, semicolon, tab, pipe in that order
\* and returns the parse of the first separator that gives at least one row;
\* the pandas parser is used exactly when none of the four gives a row, and
\* the read fails exactly when that parser raises too.
C17_FirstSuccessfulSeparator ==
    LET f == call.file
        order == <<",", ";", "\t", "|">>
        Yields(s) == f.parse[s] \in {"one", "split"}
        none == \A k \in 1 .. 4 : ~Yields(order[k])
    IN  (call.pc # "read" /\ f.kind = "csv") =>
          /\ \A k \in 1 .. 4 :
               (Yields(order[k]) /\ \A j \in 1 .. (k - 1) : ~Yields(order[j]))
                  => /\ call.read.via = order[k]
                     /\ call.read.status = "ok"
                     /\ call.read.df = ShapeDF(f, f.parse[order[k]])
          /\ none <=> call.read.via = "pandas"
          /\ (none /\ f.pandas # "raise")
                  => /\ call.csv = "ok"
                     /\ call.read.df = ShapeDF(f, f.pandas)
          /\ call.csv = "raise" <=> (none /\ f.pandas = "raise")

\* a file that the semicolon reads after the comma gave no row although the
\* pipe would read it too
C17_Witness ==
    /\ call.file.kind = "csv"
    /\ call.read.via = ";"
    /\ call.file.parse[","] = "empty"
    /\ call.file.parse["|"] = "split"
    /\ call.pc = "normalize"

\* the 10-row, 3-column CSV of the end-to-end case: only the semicolon
\* splits its lines, every other parser returns each line as one column
SemicolonFile ==
    [kind |-> "csv", name |-> "f.csv", rows |-> 10,
     parse |-> [s \in Range(Separators) |-> IF s = ";" THEN "split" ELSE "one"],
     pandas |-> "one", excel |-> "raise", sheet |-> NoDF]

\* C18: the 10-row, 3-column semicolon CSV written into a cluster without a
\* table gives a table of 10 rows and 3 + 5 = 8 columns.
C18_SemicolonCsvEightColumns ==
    (call.file = SemicolonFile /\ call.pc = "done" /\ call.result = "ok")
        => table.rows = 10 /\ Cardinality(table.schema) = 8

\* C14: a table returned by _clean_null_columns has no column of type Null,
\* List or Struct, on the normal path and on the fallback path.
C14_NoNullOrNestedColumn ==
    (call.path \in {"normal", "fallback"}) =>
        \A k \in DOMAIN call.clean.cols :
            call.clean.cols[k].dtype \notin {"Null"} \cup Nested

\* a sheet with a List column whose cast raised, returned by the fallback
C14_Witness ==
    /\ call.pc = "annotate"
    /\ call.path = "fallback"
    /\ \E k \in DOMAIN call.read.df.cols : call.read.df.cols[k].dtype = "List"
    /\ \E k \in DOMAIN call.read.df.cols : call.read.df.cols[k].dtype = "Null"
    /\ Cardinality(ColNames(call.clean)) = 2

\* C15: in every table _clean_null_columns returns, a column that was
\* missing in every row is absent, and a column that was missing in some
\* rows is present with "" in those rows.
C15_EmptyColumnsDroppedOrFilled ==
    (call.pc = "annotate") =>
        \A k \in DOMAIN call.read.df.cols :
            LET c == call.read.df.cols[k]
                missing == {r \in DOMAIN c.cells : c.cells[r] = "null"}
            IN  /\ (missing = DOMAIN c.cells) => c.name \notin ColNames(call.clean)
                /\ (missing # {} /\ missing # DOMAIN c.cells) =>
                      /\ c.name \in ColNames(call.clean)
                      /\ \A r \in missing : Col(call.clean, c.name).cells[r] = ""

\* C19: an annotated table has each of the five audit columns once, every
\* cell of it the literal of this call; a source column of that name is
\* replaced, and _row_count is the height of the table as read.
C19_AuditColumns ==
    (call.pc \in {"exists", "write"}) =>
        LET lits == AuditLiterals(call.file, call.cluster, call.read.df.height)
        IN  /\ \A a \in 1 .. 5 :
                /\ Cardinality({k \in DOMAIN call.df.cols :
                                   call.df.cols[k].name = AuditNames[a]}) = 1
                /\ \A r \in 1 .. call.df.height :
                       Col(call.df, AuditNames[a]).cells[r] = lits[a].value
                /\ Len(Col(call.df, AuditNames[a]).cells) = call.df.height
            /\ \A r \in 1 .. call.df.height :
                /\ Col(call.df, "_cluster").cells[r] = "diabetes"
                /\ Col(call.df, "_row_count").cells[r] = ToString(call.read.df.height)
            /\ call.df.height >= 1

\* a sheet that brought its own _cluster column
C19_Witness ==
    /\ call.pc = "write"
    /\ "_cluster" \in ColNames(call.read.df)
    /\ call.read.df.height = 2
    /\ Len(call.df.cols) = 7

\* C12: after any sequence of writes the table schema is the union of the
\* schemas committed, with one type per column name, and a write whose
\* columns agree in type with the table never fails on the schema (file
\* {x, y} then file {y, z} gives {x, y, z} and the five audit columns).
C12_SchemaIsUnionOfWrites ==
    /\ table.schema = UNION table.log
    /\ \A a \in table.schema, b \in table.schema : a[1] = b[1] => a[2] = b[2]
    /\ (call.pc = "done" /\ call.status = "schema_error") => call.conflict
    /\ (call.pc = "done" /\ call.status = "ok") => Schema(call.df) \subseteq table.schema

\* file {x, y}, then file {y, z} with y of the same type: both committed
C12_Witness ==
    /\ call.pc = "done" /\ call.n = 2 /\ call.status = "ok" /\ call.branch = "append"
    /\ ColNames(call.read.df) = {"y", "z"}
    /\ Cardinality(table.log) = 2
    /\ {a[1] : a \in table.schema} = {"x", "y", "z"} \cup Range(AuditNames)
    /\ Cardinality(table.schema) = 8

\* C13: an append with a column that the table has under another type
\* raises to the caller, leaves the table's rows and schema as they were,
\* and is the only write attempted for that file.
C13_TypeConflictRejected ==
    /\ []((call.pc = "done" /\ call.conflict) =>
             /\ call.result = "raised"
             /\ call.status # "ok"
             /\ call.attempts = 1)
    /\ [][(call.pc = "write" /\ table.live /\ TypeConflict(table, call.df)) =>
             /\ table' = table
             /\ call'.pc = "done"
             /\ call'.conflict]_vars

\* x written as integer, then a file with x as string is refused by the
\* table itself (the storage did not fail)
C13_Witness ==
    /\ call.pc = "done" /\ call.conflict /\ call.status = "schema_error"
    /\ <<"x", "Int64">> \in table.schema
    /\ <<"x", "Utf8">> \in Schema(call.df)
    /\ table.rows > 0

\* C21: on_created for a directory or for a file whose suffix is not .xlsx,
\* .xls or .csv returns without raising: processing_files is unchanged, no
\* task is created and no bronze table changes.
C21_UnsupportedIgnored ==
    [][\A p \in Paths :
         (delivered'[p] = delivered[p] + 1
            /\ (IsDirectory(p) \/ Lower(Suffix(p)) \notin supported_extensions))
         => /\ processing_files' = processing_files
            /\ execs' = execs
            /\ bronze' = bronze
            /\ obsPending' = obsPending
            /\ observer' = observer]_vars

\* the handler has been called for the .json file and for the directory
\* while a supported file was in flight
C21_Witness ==
    /\ delivered["raw/diabetes/n.json"] > 0
    /\ delivered["raw/diabetes/sub"] > 0
    /\ processing_files = {"raw/diabetes/a.csv"}

\* C22: nothing is retried: a call of process_file reads at most once and
\* writes at most once, a call that has ended is never resumed, and a path
\* gets at most one call per handled create event plus one from the scan.
C22_NothingRetried ==
    /\ [](\A i \in DOMAIN execs :
            /\ Cardinality({k \in DOMAIN execs[i].stages :
                               execs[i].stages[k] = "read"}) <= 1
            /\ Cardinality({k \in DOMAIN execs[i].stages :
                               execs[i].stages[k] = "write"}) <= 1)
    /\ [](\A p \in Paths :
            /\ Cardinality({i \in ExecsOf(p) : execs[i].origin = "live"}) <= delivered[p]
            /\ Cardinality({i \in ExecsOf(p) : execs[i].origin = "scan"}) <= 1)
    /\ [][\A i \in DOMAIN execs :
            execs[i].pc = "done" => execs'[i] = execs[i]]_vars

\* a write that failed, and the program went on to another file without
\* coming back to this one
C22_Witness ==
    \E i \in DOMAIN execs, j \in DOMAIN execs :
        /\ i < j
        /\ execs[i].pc = "done" /\ execs[i].failed = "write"
        /\ execs[j].pc = "done" /\ execs[j].path # execs[i].path
        /\ ExecsOf(execs[i].path) = {i}

\* C24: the create branch is taken exactly when the cluster's table
\* directory does not exist, and taking it makes the directory; so a
\* cluster sees the create branch at most once, also when that write failed
\* and no table was committed, and every later write appends.
C24_CreateBranchAtMostOnce ==
    /\ [](\A c \in Clusters :
            Cardinality({i \in DOMAIN execs :
                execs[i].cluster = c /\ execs[i].branch = "create"}) <= 1)
    /\ [](\A i \in DOMAIN execs :
            execs[i].branch # "none" => bronze[execs[i].cluster].dir)
    /\ [][\A i \in DOMAIN execs :
            (execs[i].branch = "none" /\ execs'[i].branch # "none") =>
                (execs'[i].branch = "append" <=> bronze[execs[i].cluster].dir)]_vars

\* the create write failed, nothing was committed, and the next write for
\* the cluster took the append branch
C24_Witness ==
    \E i \in DOMAIN execs, j \in DOMAIN execs :
        /\ i < j
        /\ execs[i].cluster = execs[j].cluster
        /\ execs[i].branch = "create" /\ execs[i].failed = "write"
        /\ execs[j].branch = "append" /\ execs[j].pc = "write"
        /\ bronze[execs[i].cluster].rows = 0

\* C23: _clean_null_columns and the annotation keep the row count of the
\* table as read, and a successful write adds as many rows as the file's
\* _row_count says.
C23_RowsAligned ==
    /\ (call.pc = "annotate") => call.clean.height = call.read.df.height
    /\ (call.pc \in {"exists", "write"}) => call.df.height = call.read.df.height
    /\ (call.pc = "done" /\ call.result = "ok") =>
          /\ table.rows = call.read.df.height
          /\ Col(call.df, "_row_count").cells[1] = ToString(table.rows)

\* C25: the .json file of an ingestion endpoint lies in the landing-zone
\* root, which the observer does not watch and the scan does not list: no
\* create event for it is queued or handled, the scan never meets it, it
\* never enters processing_files and no call of process_file is made for it.
C25_ApiFileNeverProcessed ==
    /\ \A k \in DOMAIN events : events[k] # VideoFile
    /\ delivered[VideoFile] = 0
    /\ obsPending # VideoFile
    /\ VideoFile \notin scanList
    /\ VideoFile \notin snapshot
    /\ VideoFile \notin processing_files
    /\ ExecsOf(VideoFile) = {}

\* an endpoint has written its file while the observer was running and a
\* file of a cluster directory was handled
C25_Witness ==
    /\ VideoFile \in disk
    /\ observer = "running"
    /\ scanpc = "done"
    /\ delivered["raw/diabetes/b.XLSX"] > 0
    /\ \E i \in DOMAIN execs : execs[i].result = "ok"

====
